---- MODULE Spec2Model ----
(***************************************************************************)
(* Model of package batch (src/group.go): a Group runs tasks in batches of *)
(* cap(g.res) goroutines and hands every batch to a callback.              *)
(*                                                                         *)
(* One caller thread issues Go and Wait calls one after the other; every   *)
(* started task is a goroutine of its own that runs f, records its error   *)
(* through errOnce, sends its value on g.res and leaves the WaitGroup.     *)
(* Submissions are numbered 1, 2, ... in the order of the Go calls (the    *)
(* tests number them from 0).  The caller follows the doc comment of Wait: *)
(* Wait is called after all Go calls (and may then be called again).       *)
(***************************************************************************)
EXTENDS Integers, Sequences, FiniteSets, Bags

VARIABLES
    limitArg,   \* the limit argument New was called with (history)
    capRes,     \* cap(g.res)
    res,        \* g.res: the buffered channel, oldest value first
    wg,         \* g.wg: the WaitGroup counter
    onceDone,   \* g.errOnce has run its function
    err,        \* g.err
    hasCbErr,   \* g.hasCbErr
    calls,      \* g.calls
    pc,         \* where the caller thread is
    arg,        \* submission number of the Go call in progress (0: none)
    tpc,        \* tpc[i]: where the goroutine of submission i is
    submitted,  \* history: the task given to every Go call, in call order
    started,    \* history: submissions whose goroutine was started, in order
    onceLog,    \* history: failing submissions in the order they reached errOnce.Do
    cbLog,      \* history: every callback invocation, in order
    waitRet     \* history: the value returned by every Wait call, in order

vars == <<limitArg, capRes, res, wg, onceDone, err, hasCbErr, calls, pc, arg,
          tpc, submitted, started, onceLog, cbLog, waitRet>>

\* ---- bounds ----
MaxGo == 5          \* Go calls made by the caller
MaxWait == 2        \* Wait calls made by the caller
MaxLimit == 2       \* largest limit given to New
NonPositive == 2    \* how many limits <= 0 are given to New: 0, -1, ...

Subs == 1 .. MaxGo
LimitArgs == (1 - NonPositive) .. MaxLimit

\* ---- errors ----
Nil == [kind |-> "nil", id |-> 0]
TaskErr(i) == [kind |-> "task", id |-> i]   \* the error made by the task of submission i
CbErr(k) == [kind |-> "cb", id |-> k]       \* an error made by callback invocation k

\* ---- pure parts of the code ----
\* (mutant) New clamps negative limits only: limit 0 makes a channel of
\* capacity 0.
NewClampNegative(limit) == IF limit < 0 THEN 1 ELSE limit

\* New: the channel capacity for a given limit.
New(limit) == IF limit <= 0 THEN 1 ELSE limit

\* (mutant) Go never looks at the flag.
GoNeverNoOp(flag) == FALSE

\* Go, line 40: the call is a no-op when the flag is set.
GoIsNoOp(flag) == flag

\* (mutant) The boundary test without c > 0: the first Go call is a boundary.
AtBoundaryFromZero(c, cap) == c % cap = 0

\* (mutant) The boundary test one call late: a boundary every cap + 1 calls.
AtBoundaryLate(c, cap) == c > 0 /\ c % (cap + 1) = 0

\* Go, line 46: the batch boundary test on the loaded call counter.
AtBoundary(c, cap) == c > 0 /\ c % cap = 0

\* (mutant) wg.Wait() that does not wait.
WgWaitReturnsAtOnce(n) == TRUE

\* wg.Wait() returns when the WaitGroup counter n is zero.
WgWaitReturns(n) == n = 0

\* (mutant) A drain that receives one value only.
DrainOne(ch) == IF Len(ch) > 0 THEN <<Head(ch)>> ELSE <<>>

\* The drain loop: receives from the channel while len(g.res) > 0.
RECURSIVE Drain(_)
Drain(ch) == IF Len(ch) > 0 THEN <<Head(ch)>> \o Drain(Tail(ch)) ELSE <<>>

\* What is left in the channel after the drain loop.
AfterDrain(ch) == SubSeq(ch, Len(Drain(ch)) + 1, Len(ch))

\* (mutant) A nil return of the callback leaves g.err as it was.
StoreCbKeep(old, r) == IF r = [kind |-> "nil", id |-> 0] THEN old ELSE r

\* (mutant) A channel made one slot short: make(chan T, limit-1).
ChanOneShort(n, cap) == n < cap - 1

\* Line 67 on the channel of line 31: a send proceeds while the channel
\* holds fewer than cap values (n is len(g.res)) and blocks otherwise.
ChanHasRoom(n, cap) == n < cap

\* Go, line 52: g.err = g.cb(res, g.err): the value of g.err once the callback
\* returned r.
StoreCb(old, r) == r

\* (mutant) Every failing task overwrites g.err: the last one wins.
OnceDoLast(done, old, e) == e

\* errOnce.Do(func() { g.err = err }): the value of g.err afterwards.
OnceDo(done, old, e) == IF done THEN old ELSE e

\* (mutant) The tail of Wait returns g.err whatever the flag.
WaitTailAlways(flag, e) == e

\* The tail of Wait (lines 85-88): the stored error if the flag is set, else nil.
WaitTail(flag, e) == IF flag THEN e ELSE Nil

\* What Wait returns once its callback returned r (lines 81-88).
WaitResult(r, flag, e) == IF r # Nil THEN r ELSE WaitTail(flag, e)

\* (mutant) Wait calls the callback whatever it drained.
WaitCallsCbAlways(vals) == TRUE

\* Wait, line 80: the callback is called only with drained values.
WaitCallsCb(vals) == Len(vals) > 0

\* The value returned by the task of submission i: as in the tests, every
\* task returns its own number.
TaskValue(i) == i

\* What a callback may return: nil, the error it was given, or its own error.
CbReturns(e, k) == {Nil, e, CbErr(k)}

AllErrors == {Nil} \cup {TaskErr(i) : i \in Subs} \cup {CbErr(k) : k \in 1 .. MaxGo}

\* Started goroutines that have not finished.
InFlight == {i \in Subs : tpc[i] \in {"run", "send", "sent"}}

\* The record of a callback invocation on entry: the values and the error it
\* is given, the call that makes it, and what the group looks like then.
CbEntry(vals, e, by) ==
    [res |-> vals, err |-> e, by |-> by, nstarted |-> Len(started),
     inflight |-> Cardinality(InFlight), returned |-> FALSE, ret |-> Nil]

Init ==
    /\ limitArg \in LimitArgs
    /\ capRes = New(limitArg)
    /\ res = <<>>
    /\ wg = 0
    /\ onceDone = FALSE
    /\ err = Nil
    /\ hasCbErr = FALSE
    /\ calls = 0
    /\ pc = "idle"
    /\ arg = 0
    /\ tpc = [i \in Subs |-> "none"]
    /\ submitted = <<>>
    /\ started = <<>>
    /\ onceLog = <<>>
    /\ cbLog = <<>>
    /\ waitRet = <<>>

\* Go, lines 57-59: count the call, join the WaitGroup, start the goroutine
\* of submission i.
Launch(i) ==
    /\ calls' = calls + 1
    /\ wg' = wg + 1
    /\ tpc' = [tpc EXCEPT ![i] = "run"]
    /\ started' = Append(started, i)

\* The caller calls Go(f) where f returns (TaskValue(i), error iff fail).  Off
\* a batch boundary the call runs to its end; on a boundary it blocks in
\* wg.Wait() (line 47).
Go(fail) ==
    /\ pc = "idle"
    /\ Len(waitRet) = 0
    /\ Len(submitted) < MaxGo
    /\ submitted' = Append(submitted, [val |-> TaskValue(Len(submitted) + 1), fail |-> fail])
    /\ LET i == Len(submitted) + 1 IN
        IF GoIsNoOp(hasCbErr)
        THEN UNCHANGED <<calls, wg, tpc, started, pc, arg>>
        ELSE IF AtBoundary(calls, capRes)
        THEN /\ pc' = "go_join"
             /\ arg' = i
             /\ UNCHANGED <<calls, wg, tpc, started>>
        ELSE /\ Launch(i)
             /\ UNCHANGED <<pc, arg>>
    /\ UNCHANGED <<limitArg, capRes, res, onceDone, err, hasCbErr, onceLog, cbLog, waitRet>>

\* Go, lines 47-52: wg.Wait() returns, the channel is drained and the
\* callback is entered with the drained values and g.err.
GoJoin ==
    /\ pc = "go_join"
    /\ WgWaitReturns(wg)
    /\ res' = AfterDrain(res)
    /\ cbLog' = Append(cbLog, CbEntry(Drain(res), err, "Go"))
    /\ pc' = "go_cb"
    /\ UNCHANGED <<limitArg, capRes, wg, onceDone, err, hasCbErr, calls, arg,
                   tpc, submitted, started, onceLog, waitRet>>

\* Go, lines 52-59: the callback returns r; r is stored in g.err; a non-nil r
\* sets the flag and ends the call, nil lets the call start its task.
GoCbReturn(r) ==
    /\ pc = "go_cb"
    /\ r \in CbReturns(cbLog[Len(cbLog)].err, Len(cbLog))
    /\ cbLog' = [cbLog EXCEPT ![Len(cbLog)].returned = TRUE, ![Len(cbLog)].ret = r]
    /\ err' = StoreCb(err, r)
    /\ IF err' # Nil
       THEN /\ hasCbErr' = TRUE
            /\ UNCHANGED <<calls, wg, tpc, started>>
       ELSE /\ Launch(arg)
            /\ UNCHANGED hasCbErr
    /\ pc' = "idle"
    /\ arg' = 0
    /\ UNCHANGED <<limitArg, capRes, res, onceDone, submitted, onceLog, waitRet>>

\* Goroutine, lines 61-66: f returns; a failing task runs errOnce.Do.
TaskRun(i) ==
    /\ tpc[i] = "run"
    /\ IF submitted[i].fail
       THEN /\ err' = OnceDo(onceDone, err, TaskErr(i))
            /\ onceDone' = TRUE
            /\ onceLog' = Append(onceLog, i)
       ELSE UNCHANGED <<err, onceDone, onceLog>>
    /\ tpc' = [tpc EXCEPT ![i] = "send"]
    /\ UNCHANGED <<limitArg, capRes, res, wg, hasCbErr, calls, pc, arg,
                   submitted, started, cbLog, waitRet>>

\* Goroutine, line 67: g.res <- v, which blocks while the channel is full.
TaskSend(i) ==
    /\ tpc[i] = "send"
    /\ ChanHasRoom(Len(res), capRes)
    /\ res' = Append(res, submitted[i].val)
    /\ tpc' = [tpc EXCEPT ![i] = "sent"]
    /\ UNCHANGED <<limitArg, capRes, wg, onceDone, err, hasCbErr, calls, pc, arg,
                   submitted, started, onceLog, cbLog, waitRet>>

\* Goroutine, line 60: the deferred g.wg.Done().
TaskDone(i) ==
    /\ tpc[i] = "sent"
    /\ wg' = wg - 1
    /\ tpc' = [tpc EXCEPT ![i] = "finished"]
    /\ UNCHANGED <<limitArg, capRes, res, onceDone, err, hasCbErr, calls, pc, arg,
                   submitted, started, onceLog, cbLog, waitRet>>

\* The caller calls Wait, which blocks in wg.Wait() (line 75).
Wait ==
    /\ pc = "idle"
    /\ Len(waitRet) < MaxWait
    /\ pc' = "wait_join"
    /\ UNCHANGED <<limitArg, capRes, res, wg, onceDone, err, hasCbErr, calls, arg,
                   tpc, submitted, started, onceLog, cbLog, waitRet>>

\* Wait, lines 75-88: wg.Wait() returns and the channel is drained; with
\* values the callback is entered, without any Wait returns at once.
WaitJoin ==
    /\ pc = "wait_join"
    /\ WgWaitReturns(wg)
    /\ res' = AfterDrain(res)
    /\ IF WaitCallsCb(Drain(res))
       THEN /\ cbLog' = Append(cbLog, CbEntry(Drain(res), err, "Wait"))
            /\ pc' = "wait_cb"
            /\ UNCHANGED waitRet
       ELSE /\ waitRet' = Append(waitRet, WaitTail(hasCbErr, err))
            /\ pc' = "idle"
            /\ UNCHANGED cbLog
    /\ UNCHANGED <<limitArg, capRes, wg, onceDone, err, hasCbErr, calls, arg,
                   tpc, submitted, started, onceLog>>

\* Wait, lines 81-88: the callback returns r and Wait returns.
WaitCbReturn(r) ==
    /\ pc = "wait_cb"
    /\ r \in CbReturns(cbLog[Len(cbLog)].err, Len(cbLog))
    /\ cbLog' = [cbLog EXCEPT ![Len(cbLog)].returned = TRUE, ![Len(cbLog)].ret = r]
    /\ waitRet' = Append(waitRet, WaitResult(r, hasCbErr, err))
    /\ pc' = "idle"
    /\ UNCHANGED <<limitArg, capRes, res, wg, onceDone, err, hasCbErr, calls, arg,
                   tpc, submitted, started, onceLog>>

Next ==
    \/ \E fail \in BOOLEAN : Go(fail)
    \/ GoJoin
    \/ \E r \in AllErrors : GoCbReturn(r)
    \/ \E i \in Subs : TaskRun(i)
    \/ \E i \in Subs : TaskSend(i)
    \/ \E i \in Subs : TaskDone(i)
    \/ Wait
    \/ WaitJoin
    \/ \E r \in AllErrors : WaitCbReturn(r)

Spec == Init /\ [][Next]_vars

\* The scheduling the Go runtime gives: every goroutine that can take its
\* next step takes it, wg.Wait() returns once the counter is zero, and (the
\* hypothesis of the termination property) every task and every callback
\* invocation returns.  The caller is free to stop calling Go and Wait.
Fairness ==
    /\ \A i \in Subs : WF_vars(TaskRun(i))
    /\ \A i \in Subs : WF_vars(TaskSend(i))
    /\ \A i \in Subs : WF_vars(TaskDone(i))
    /\ WF_vars(GoJoin)
    /\ WF_vars(WaitJoin)
    /\ WF_vars(\E r \in AllErrors : GoCbReturn(r))
    /\ WF_vars(\E r \in AllErrors : WaitCbReturn(r))

FairSpec == Spec /\ Fairness

\* ---------------------------------------------------------------------------
\* Vocabulary of the properties
\* ---------------------------------------------------------------------------
CeilDiv(n, d) == (n + d - 1) \div d

\* The bag of the elements of a sequence.
SeqBag(s) == [v \in {s[i] : i \in DOMAIN s} |-> Cardinality({i \in DOMAIN s : s[i] = v})]

\* The k-th submission window: the positions in started of launched tasks
\* (k-1)*cap+1 .. k*cap, and the submissions launched there.
Window(k) == {j \in DOMAIN started : (k - 1) * capRes < j /\ j <= k * capRes}
WindowSubs(k) == {started[j] : j \in Window(k)}
WindowFails(k) == \E i \in WindowSubs(k) : submitted[i].fail

\* The bag of the values returned by the tasks of window k.
WindowBag(k) ==
    [v \in {submitted[i].val : i \in WindowSubs(k)} |->
        Cardinality({i \in WindowSubs(k) : submitted[i].val = v})]

AllSucceed == \A i \in DOMAIN submitted : ~submitted[i].fail
CbAlwaysNil == \A k \in DOMAIN cbLog : cbLog[k].ret = Nil
FirstWaitReturned == Len(waitRet) >= 1

\* ---------------------------------------------------------------------------
\* C1: with limit >= 1, n Go calls then Wait, all tasks succeeding and the
\* callback always returning nil: the callback is invoked ceil(n / limit)
\* times, every invocation but the last gets limit results, the last gets
\* n mod limit (limit when limit divides n), and Wait returns nil.
C1_BatchCount ==
    (FirstWaitReturned /\ limitArg >= 1 /\ AllSucceed /\ CbAlwaysNil) =>
        LET n == Len(submitted)
            m == Len(cbLog)
        IN  /\ m = CeilDiv(n, limitArg)
            /\ \A k \in 1 .. m - 1 : Len(cbLog[k].res) = limitArg
            /\ m > 0 => Len(cbLog[m].res) =
                    (IF n % limitArg = 0 THEN limitArg ELSE n % limitArg)
            /\ waitRet[1] = Nil

\* Five successful tasks with limit 2 went through three callbacks and Wait.
C1_Witness ==
    /\ FirstWaitReturned /\ limitArg = 2 /\ AllSucceed /\ CbAlwaysNil
    /\ Len(submitted) = 5 /\ Len(cbLog) = 3 /\ Len(cbLog[3].res) = 1

\* C2: the results given to the k-th callback invocation are, as a multiset,
\* the values returned by the tasks of the k-th submission window, failing
\* tasks included; once Wait has returned every started task was delivered.
C2_BatchMembership ==
    /\ \A k \in DOMAIN cbLog : SeqBag(cbLog[k].res) = WindowBag(k)
    /\ FirstWaitReturned => Len(cbLog) = CeilDiv(Len(started), capRes)

\* A batch was delivered out of submission order and holds the value of a
\* failing task.
C2_Witness ==
    \E k \in DOMAIN cbLog :
        /\ cbLog[k].res = <<2, 1>>
        /\ submitted[1].fail
        /\ FirstWaitReturned

\* C3: every batch has its own error slot: a delivered batch with a failing
\* task gives the callback a non-nil error, also after an earlier batch
\* whose error the callback swallowed.
C3_ErrorPerBatch ==
    \A k \in DOMAIN cbLog : WindowFails(k) => cbLog[k].err # Nil

\* C4: task errors alone do not halt the group: while no callback has
\* returned non-nil every submitted task is started (but the one whose Go
\* call is at a boundary), a batch whose tasks all succeed is delivered with
\* a nil error, and Wait returns nil.
C4_TaskErrorsDoNotHalt ==
    CbAlwaysNil =>
        /\ started = [j \in 1 .. Len(started) |-> j]
        /\ Len(started) = Len(submitted) - (IF arg # 0 THEN 1 ELSE 0)
        /\ \A k \in DOMAIN cbLog : ~WindowFails(k) => cbLog[k].err = Nil
        /\ \A w \in DOMAIN waitRet : waitRet[w] = Nil

\* A task of batch 1 failed, the callback swallowed the error, and batch 2,
\* all successful, was delivered with a nil error before Wait returned nil.
C4_Witness ==
    /\ CbAlwaysNil /\ FirstWaitReturned
    /\ Len(cbLog) >= 2
    /\ WindowFails(1) /\ cbLog[1].err # Nil
    /\ ~WindowFails(2) /\ cbLog[2].err = Nil
    /\ Len(started) = MaxGo

Min(S) == CHOOSE x \in S : \A y \in S : x <= y

\* A callback invocation made by Go returned a non-nil error.
GoCbFailed == \E k \in DOMAIN cbLog : cbLog[k].by = "Go" /\ cbLog[k].ret # Nil

\* C5: once a callback invoked at a batch boundary inside Go has returned a
\* non-nil error the flag is set and stays set, no task is started any more
\* (not even the one of that Go call), and the callback is not invoked again.
C5_TerminalIsPermanent ==
    [][GoCbFailed' =>
            /\ hasCbErr'
            /\ started' = started
            /\ InFlight' = {}
            /\ Len(cbLog') = Len(cbLog)]_vars

\* The group went terminal inside a Go call, two more Go calls followed and
\* Wait returned.
C5_Witness ==
    /\ GoCbFailed /\ hasCbErr
    /\ Len(submitted) >= Len(started) + 3
    /\ FirstWaitReturned

\* The first non-nil error returned by a callback invocation (Nil: none).
FirstCbError ==
    LET S == {k \in DOMAIN cbLog : cbLog[k].ret # Nil}
    IN  IF S = {} THEN Nil ELSE cbLog[Min(S)].ret

\* C6: the first Wait returns the first non-nil error returned by a callback
\* invocation (made by Go or by this Wait), and nil when there is none; a
\* task error the callback did not return is not returned.
C6_WaitReturnsFirstCbError ==
    FirstWaitReturned => waitRet[1] = FirstCbError

\* Batch 1 had a task error the callback swallowed, and Wait returned the
\* error its own callback invocation made for batch 2.
C6_Witness ==
    /\ FirstWaitReturned /\ Len(cbLog) = 2
    /\ cbLog[1].err # Nil /\ cbLog[1].ret = Nil
    /\ cbLog[2].by = "Wait" /\ waitRet[1] = CbErr(2)

\* C7: a second Wait does not invoke the callback and returns what the first
\* Wait returned, however the first Wait ended.
C7_SecondWaitSame ==
    /\ FirstWaitReturned => pc # "wait_cb"
    /\ \A w \in 2 .. Len(waitRet) : waitRet[w] = waitRet[1]

\* C8: every callback invocation, by Go or by Wait, gets between 1 and limit
\* results.
C8_BatchSize ==
    \A k \in DOMAIN cbLog :
        /\ 1 <= Len(cbLog[k].res)
        /\ Len(cbLog[k].res) <= capRes
        /\ limitArg >= 1 => Len(cbLog[k].res) <= limitArg

\* Go delivered a full batch of two and Wait a last batch of one.
C8_Witness ==
    /\ limitArg = 2 /\ FirstWaitReturned
    /\ \E k \in DOMAIN cbLog : cbLog[k].by = "Go" /\ Len(cbLog[k].res) = 2
    /\ \E k \in DOMAIN cbLog : cbLog[k].by = "Wait" /\ Len(cbLog[k].res) = 1

\* The first failing task of window k to reach errOnce.Do (0: none).
FirstRecorder(k) ==
    LET S == {j \in DOMAIN onceLog : onceLog[j] \in WindowSubs(k)}
    IN  IF S = {} THEN 0 ELSE onceLog[Min(S)]

\* C9: the error given to the callback for a batch is nil or the error of
\* the first failing task of that batch to record its error: never the
\* error of a later recorder, of another batch, or an aggregate.
C9_FirstErrorWins ==
    \A k \in DOMAIN cbLog :
        \/ cbLog[k].err = Nil
        \/ FirstRecorder(k) # 0 /\ cbLog[k].err = TaskErr(FirstRecorder(k))

\* Both tasks of batch 1 failed, submission 2 recorded first, and the
\* callback got the error of submission 2.
C9_Witness ==
    /\ Len(cbLog) >= 1 /\ Len(submitted) >= 2
    /\ submitted[1].fail /\ submitted[2].fail
    /\ WindowSubs(1) = {1, 2}
    /\ onceLog = <<2, 1>>
    /\ cbLog[1].err = TaskErr(2)

\* C10: batches are delivered in submission order and the callback for
\* batch k has returned before a task of batch k+1 is started: a callback
\* made by Go for batch k finds exactly k*cap tasks started and none in
\* flight, and when task m+1 is started the callbacks of the m div cap full
\* batches before it have all been made and have returned, and at a batch
\* boundary every earlier task has finished.
C10_BatchOrder ==
    /\ [](\A k \in DOMAIN cbLog :
            cbLog[k].by = "Go" => cbLog[k].nstarted = k * capRes /\ cbLog[k].inflight = 0)
    /\ [][Len(started') > Len(started) =>
            /\ Len(cbLog') = Len(started) \div capRes
            /\ \A k \in DOMAIN cbLog' : cbLog'[k].returned /\ cbLog'[k].ret = Nil
            /\ Len(started) % capRes = 0 => InFlight = {}]_vars

\* The first task of batch 2 runs after the callback for batch 1 returned.
C10_Witness ==
    /\ capRes = 2 /\ Len(started) = 3 /\ tpc[3] = "run"
    /\ Len(cbLog) = 1 /\ cbLog[1].returned /\ cbLog[1].res = <<2, 1>>

\* C11: the tasks started and not yet finished are never more than limit,
\* and so is the WaitGroup counter: task limit+1 of a window is started only
\* after the limit tasks before it have finished and were drained.
C11_AtMostLimitInFlight ==
    /\ Cardinality(InFlight) <= capRes
    /\ wg <= capRes
    /\ limitArg >= 1 => Cardinality(InFlight) <= limitArg

\* With limit 2, the second batch has its two tasks in flight.
C11_Witness ==
    /\ limitArg = 2 /\ InFlight = {3, 4} /\ wg = 2

\* C12: Wait on a group on which Go was never called returns nil, does not
\* invoke the callback and leaves the group as New made it.
C12_WaitWithoutGo ==
    Len(submitted) = 0 =>
        /\ \A w \in DOMAIN waitRet : waitRet[w] = Nil
        /\ cbLog = <<>> /\ pc # "wait_cb"
        /\ capRes = New(limitArg) /\ res = <<>> /\ wg = 0 /\ ~onceDone
        /\ err = Nil /\ ~hasCbErr /\ calls = 0

\* Wait has returned and Go was never called.
C12_Witness ==
    /\ Len(submitted) = 0 /\ FirstWaitReturned /\ pc = "idle"

\* C13: a Go call on a terminal group changes nothing: the call counter, the
\* channel, the stored error, the flag, the WaitGroup and the goroutines
\* are as before, nothing is started and the callback is not invoked.
C13_GoAfterTerminalIsNoOp ==
    [][(hasCbErr /\ Len(submitted') > Len(submitted)) =>
            /\ UNCHANGED <<calls, res, err, hasCbErr, onceDone, wg, tpc, capRes>>
            /\ UNCHANGED <<started, cbLog, pc, arg>>]_vars

\* The group went terminal in a Go call and another Go call was made after.
C13_Witness ==
    /\ hasCbErr /\ GoCbFailed
    /\ Len(submitted) >= Len(started) + 2
    /\ pc = "idle"

\* C14: the callback is invoked only when no task is in flight: on entry no
\* started task is unfinished, every task started so far has its result in
\* this batch or an earlier one, and nothing runs while the callback runs.
C14_CallbackAfterJoin ==
    /\ \A k \in DOMAIN cbLog :
            /\ cbLog[k].inflight = 0
            /\ cbLog[k].nstarted = (k - 1) * capRes + Len(cbLog[k].res)
    /\ pc \in {"go_cb", "wait_cb"} =>
            /\ InFlight = {} /\ wg = 0 /\ res = <<>>
            /\ \A j \in DOMAIN started : tpc[started[j]] = "finished"

\* The callback runs, called by Wait, for a last batch of one after a full
\* batch of two.
C14_Witness ==
    /\ pc = "wait_cb" /\ capRes = 2 /\ Len(cbLog) = 2
    /\ Len(cbLog[2].res) = 1 /\ cbLog[1].by = "Go"

\* C15: when every task and every callback invocation returns, every Go
\* call and every Wait call returns, and the started tasks all deposit
\* their result and finish (a goroutine leaves InFlight only by finishing):
\* no send blocks for ever, no join deadlocks.
C15_CallsReturn ==
    /\ (pc # "idle") ~> (pc = "idle")
    /\ (InFlight # {}) ~> (InFlight = {})

\* A Go call is blocked at a batch boundary while both tasks of the batch
\* are still to deposit their result.
C15_Witness ==
    /\ pc = "go_join" /\ capRes = 2 /\ wg = 2
    /\ \A i \in InFlight : tpc[i] \in {"run", "send"}

\* Started goroutines that have not sent their value on g.res yet.
Pending == {i \in Subs : tpc[i] \in {"run", "send"}}

\* The channel is empty right after a drain: while the callback runs, and
\* once Wait has returned.
EmptyAfterDrain ==
    (pc \in {"go_cb", "wait_cb"} \/ FirstWaitReturned) => res = <<>>

\* C16 as stated: the buffered results plus the tasks in flight (started and
\* not yet finished, what g.wg counts) are at most limit in every reachable
\* state, and the channel is empty right after every drain.
C16_BufferedPlusInFlight ==
    /\ Len(res) + Cardinality(InFlight) <= capRes
    /\ Len(res) + wg <= capRes
    /\ EmptyAfterDrain

\* C16 amended: the buffered results plus the started tasks that have not
\* yet deposited their result are at most limit, so a task about to send
\* finds room; and the channel is empty right after every drain.
C16_BufferedPlusPending ==
    /\ Len(res) + Cardinality(Pending) <= capRes
    /\ \A i \in Subs : tpc[i] = "send" => ChanHasRoom(Len(res), capRes)
    /\ EmptyAfterDrain

\* With limit 2 one task has deposited its value and not yet left the
\* WaitGroup while the other is about to send.
C16_Witness ==
    /\ capRes = 2 /\ Len(res) = 1 /\ wg = 2
    /\ \E i, j \in InFlight : tpc[i] = "sent" /\ tpc[j] = "send"

\* C17: a Go call on a group that is not terminal, with a call counter that
\* is zero or no multiple of limit, starts its task and returns in the same
\* step, whatever the other tasks are doing, and does not invoke the
\* callback; the caller waits inside Go at a batch boundary only.
C17_GoReturnsOffBoundary ==
    /\ [](pc = "go_join" => calls > 0 /\ calls % capRes = 0)
    /\ [][(/\ Len(submitted') > Len(submitted)
           /\ ~hasCbErr
           /\ (calls = 0 \/ calls % capRes # 0)) =>
            /\ pc' = "idle" /\ arg' = 0
            /\ started' = Append(started, Len(submitted'))
            /\ tpc' = [tpc EXCEPT ![Len(submitted')] = "run"]
            /\ calls' = calls + 1 /\ wg' = wg + 1
            /\ UNCHANGED <<cbLog, res, err, hasCbErr>>]_vars

\* With limit 2, the second Go call of the second batch has returned while
\* both tasks of the batch are running.
C17_Witness ==
    /\ capRes = 2 /\ pc = "idle" /\ Len(started) = 4
    /\ tpc[3] = "run" /\ tpc[4] = "run"
    /\ Cardinality(InFlight) = capRes

\* C18: a group made with limit <= 0 is a group made with limit 1: New
\* gives it the channel capacity of limit 1 (the only thing New keeps of
\* limit), at most one task is in flight, and every callback invocation
\* gets exactly one result.
C18_NonPositiveLimitIsOne ==
    limitArg <= 0 =>
        /\ capRes = New(1) /\ capRes = 1
        /\ Cardinality(InFlight) <= 1 /\ wg <= 1
        /\ \A k \in DOMAIN cbLog : Len(cbLog[k].res) = 1

\* A group made with limit -1 delivered three batches of one and Wait
\* returned.
C18_Witness ==
    /\ limitArg = -1 /\ FirstWaitReturned
    /\ Len(cbLog) >= 3
    /\ \A k \in DOMAIN cbLog : Len(cbLog[k].res) = 1
====
